---- MODULE Spec2Model ----
(***************************************************************************)
(* A model of the per-frame simulation of pong-bevy (src/src/main.rs).     *)
(*                                                                         *)
(* The game is a Bevy App whose seven update systems are run once per      *)
(* frame.  Bevy runs systems that touch the same components or resources   *)
(* in the order in which add_system registered them, so the frame is the   *)
(* sequence Schedule below; each system is one action and pc names the     *)
(* system that runs next.                                                  *)
(*                                                                         *)
(* Numbers.  The program computes in f32.  The model computes the same     *)
(* expressions exactly, in fixed point: every length (a translation, a     *)
(* Position.y, a window dimension) is held multiplied by Scale, and        *)
(* Ball.speed_fact is held multiplied by SpeedDen, so that height / 100.,  *)
(* score / 5. and count / 3. are integers.  f32 rounding is not modelled.  *)
(***************************************************************************)
EXTENDS Integers, Sequences, FiniteSets

VARIABLES
    pc,                 \* the system of Schedule that runs next, or "input"
    frame,              \* number of frames completed
    win,                \* primary window: [width, height] (pixels, unscaled)
    input,              \* Input<KeyCode>: [pressed, just_pressed]
    ball,               \* Ball component: [x, y, speed_fact]
    translation,        \* the ball's Transform.translation: [x, y]
    paddle,             \* Paddle component per paddle_type: [is_auto]
    position,           \* Position component per paddle_type: y
    paddle_translation, \* the paddles' Transform.translation: [x, y]
    score,              \* Score.score per paddle_type
    text,               \* Text.value of the two score labels
    counter,            \* Counter.count
    audio,              \* sounds handed to Audio::play in this frame
    start,              \* history: the entity store when the frame began
    outcome,            \* history: the branches ball_collision took
    drive               \* history: who changed each Position in this frame

vars == <<pc, frame, win, input, ball, translation, paddle, position,
          paddle_translation, score, text, counter, audio, start, outcome,
          drive>>

(***************************************************************************)
(* Bounds of the model.                                                    *)
(***************************************************************************)
\* Frames explored.
MaxFrames == 12

\* Largest score of one side, and largest rally count, that the difficulty
\* formula is applied to in SpecDifficulty.
MaxTally == 13

MaxRally == 7

(***************************************************************************)
(* Fixed point.                                                            *)
(***************************************************************************)
\* Lengths are held in 1/100 units: height / 100. is then the integer height.
Scale == 100

\* speed_fact is held in 1/15 units: x / 5. and x / 3. are then integers.
SpeedDen == 15

Abs(n) == IF n < 0 THEN -n ELSE n

Min(a, b) == IF a < b THEN a ELSE b

Max(a, b) == IF a > b THEN a ELSE b

Sign(n) == IF n > 0 THEN 1 ELSE IF n < 0 THEN -1 ELSE 0

(***************************************************************************)
(* Types of the program.                                                   *)
(***************************************************************************)
PaddleType == {"Left", "Right"}

\* The keys that move_paddle reads, and D, which its comment names.
KeyCode == {"W", "O", "Q", "Up", "Down", "P", "D"}

\* Window sizes (width, height) the game is run in.
Viewports == {<<52, 120>>, <<49, 125>>}

(***************************************************************************)
(* main: the update systems in the order of their registration.            *)
(***************************************************************************)
\* Variant of Schedule (a fault C3 must detect): ball_speed_up registered
\* last, so that it runs after the collision step.
ScheduleDifficultyLast ==
    << "ball_move", "update_score", "transform_paddle", "move_paddle",
       "ball_collision", "auto_move_paddle", "ball_speed_up" >>

\* Variant of Schedule (a fault C7 must detect): ball_collision registered
\* before the systems that move the paddles.
ScheduleCollisionFirst ==
    << "ball_move", "ball_speed_up", "update_score", "transform_paddle",
       "ball_collision", "move_paddle", "auto_move_paddle" >>

Schedule ==
    << "ball_move", "ball_speed_up", "update_score", "transform_paddle",
       "move_paddle", "ball_collision", "auto_move_paddle" >>

\* The system that runs after system s; after the last one the frame ends
\* and the engine reads the keyboard for the next frame.
After(s) ==
    LET i == CHOOSE k \in 1..Len(Schedule) : Schedule[k] = s
    IN  IF i < Len(Schedule) THEN Schedule[i + 1] ELSE "input"

(***************************************************************************)
(* Startup systems.                                                        *)
(***************************************************************************)
\* setup inserts the Counter resource.
setup == 0

\* Variant of spawn_ball (a fault C13 must detect): the Ball is spawned with
\* the zero a derived Default would give its speed_fact.
spawn_ball_default == [x |-> 3, y |-> 3, speed_fact |-> 0]

\* spawn_ball: the Ball component; its sprite's Transform is the default.
spawn_ball == [x |-> 3, y |-> 3, speed_fact |-> 1 * SpeedDen]

\* spawn_paddle: two paddles, both on auto-pilot, at offset 0, score 0.
spawn_paddle ==
    [paddle   |-> [t \in PaddleType |-> [is_auto |-> TRUE]],
     position |-> [t \in PaddleType |-> 0],
     score    |-> [t \in PaddleType |-> 0],
     text     |-> [t \in PaddleType |-> <<"Score:">>]]

Origin == [x |-> 0, y |-> 0]

NoOutcome == [wall |-> FALSE, bound |-> "none", kind |-> "none", at |-> Origin]

NoDrive == [t \in PaddleType |-> [manual |-> FALSE, auto |-> FALSE]]

Snapshot ==
    [ball |-> ball, translation |-> translation, paddle |-> paddle,
     position |-> position, score |-> score, counter |-> counter]

Init ==
    /\ pc = "input"
    /\ frame = 0
    /\ \E v \in Viewports : win = [width |-> v[1], height |-> v[2]]
    /\ input = [pressed |-> {}, just_pressed |-> {}]
    /\ ball = spawn_ball
    /\ translation = Origin
    /\ paddle = spawn_paddle.paddle
    /\ position = spawn_paddle.position
    /\ paddle_translation = [t \in PaddleType |-> Origin]
    /\ score = spawn_paddle.score
    /\ text = spawn_paddle.text
    /\ counter = setup
    /\ audio = <<>>
    /\ start = [ball |-> spawn_ball, translation |-> Origin,
                paddle |-> spawn_paddle.paddle,
                position |-> spawn_paddle.position,
                score |-> spawn_paddle.score, counter |-> setup]
    /\ outcome = NoOutcome
    /\ drive = NoDrive

(***************************************************************************)
(* The keyboard.  Before the update systems of a frame run, the engine     *)
(* brings Input<KeyCode> up to date: pressed is the set of keys that are   *)
(* down, just_pressed the keys that went down since the last frame.        *)
(***************************************************************************)
\* The sets of keys held down together: none, one key, or one paddle's move
\* key together with the toggle key that move_paddle reads for that paddle.
Chords ==
    {{}} \cup {{k} : k \in KeyCode}
         \cup {{"W", "Q"}, {"O", "Q"}, {"Up", "P"}, {"Down", "P"}}

\* One reading of the keyboard, of a set of keys from chords.
Keyboard(chords) ==
    /\ pc = "input"
    /\ frame < MaxFrames
    /\ \E keys \in chords :
          input' = [pressed |-> keys, just_pressed |-> keys \ input.pressed]
    /\ pc' = Schedule[1]
    /\ audio' = <<>>
    /\ start' = Snapshot
    /\ outcome' = NoOutcome
    /\ drive' = NoDrive
    /\ UNCHANGED <<frame, win, ball, translation, paddle, position,
                   paddle_translation, score, text, counter>>

keyboard_input_system == Keyboard(Chords)

\* The keyboard of a game that nobody touches.
keyboard_idle == Keyboard({{}})

(***************************************************************************)
(* ball_move                                                               *)
(***************************************************************************)
\* v * speed_fact as a length: v is a Ball.x or Ball.y, f a speed_fact.
Step(v, f) == (v * f * Scale) \div SpeedDen

\* Variant of ball_move (a fault C20 must detect): both lines add to
\* translation.y, and translation.x is never moved.
ball_move_vertical ==
    /\ pc = "ball_move"
    /\ translation' = [x |-> translation.x,
                       y |-> translation.y + Step(ball.x, ball.speed_fact)
                                           + Step(ball.y, ball.speed_fact)]
    /\ pc' = After("ball_move")
    /\ UNCHANGED <<frame, win, input, ball, paddle, position,
                   paddle_translation, score, text, counter, audio, start,
                   outcome, drive>>

ball_move ==
    /\ pc = "ball_move"
    /\ translation' = [x |-> translation.x + Step(ball.x, ball.speed_fact),
                       y |-> translation.y + Step(ball.y, ball.speed_fact)]
    /\ pc' = After("ball_move")
    /\ UNCHANGED <<frame, win, input, ball, paddle, position,
                   paddle_translation, score, text, counter, audio, start,
                   outcome, drive>>

(***************************************************************************)
(* ball_speed_up                                                           *)
(***************************************************************************)
\* Variant of SpeedFact (a fault C11 must detect): cur_score is not capped.
SpeedFactUncapped(cur_score, count) ==
    SpeedDen + (cur_score * SpeedDen) \div 5 + (count * SpeedDen) \div 3

\* 1.0 + (cur_score.min(20) as f32 / 5.) + (count as f32 / 3.), times SpeedDen
SpeedFact(cur_score, count) ==
    SpeedDen + (Min(cur_score, 20) * SpeedDen) \div 5 + (count * SpeedDen) \div 3

ball_speed_up ==
    /\ pc = "ball_speed_up"
    /\ LET cur_score == score["Left"] + score["Right"]
       IN  ball' = [ball EXCEPT !.speed_fact = SpeedFact(cur_score, counter)]
    /\ pc' = After("ball_speed_up")
    /\ UNCHANGED <<frame, win, input, translation, paddle, position,
                   paddle_translation, score, text, counter, audio, start,
                   outcome, drive>>

(***************************************************************************)
(* update_score                                                            *)
(***************************************************************************)
\* format!("Score: {}", n)
Format(n) == <<"Score: ", n>>

update_score ==
    /\ pc = "update_score"
    /\ text' = [t \in PaddleType |-> Format(score[t])]
    /\ pc' = After("update_score")
    /\ UNCHANGED <<frame, win, input, ball, translation, paddle, position,
                   paddle_translation, score, counter, audio, start, outcome,
                   drive>>

(***************************************************************************)
(* transform_paddle                                                        *)
(***************************************************************************)
\* ((win.width() / 2) - 10) as f32: the division is the integers'.
PaddleX == ((win.width \div 2) - 10) * Scale

transform_paddle ==
    /\ pc = "transform_paddle"
    /\ paddle_translation' =
          [t \in PaddleType |->
              [x |-> IF t = "Left" THEN -PaddleX ELSE PaddleX,
               y |-> position[t]]]
    /\ pc' = After("transform_paddle")
    /\ UNCHANGED <<frame, win, input, ball, translation, paddle, position,
                   score, text, counter, audio, start, outcome, drive>>

(***************************************************************************)
(* move_paddle                                                             *)
(***************************************************************************)
\* The keys move_paddle reads for each paddle_type.
UpKey(t) == IF t = "Left" THEN "W" ELSE "Up"

DownKey(t) == IF t = "Left" THEN "O" ELSE "Down"

ToggleKey(t) == IF t = "Left" THEN "Q" ELSE "P"

\* The keys that the comment on move_paddle gives each paddle.
DocUpKey(t) == IF t = "Left" THEN "W" ELSE "Up"

DocDownKey(t) == IF t = "Left" THEN "D" ELSE "Down"

DocToggleKey(t) == IF t = "Left" THEN "P" ELSE "Q"

\* input.pressed(key)
Pressed(key) == key \in input.pressed

\* speed = height / 100.
Speed == (win.height * Scale) \div 100

\* pos.y after the two movement keys have been looked at.
Manual(t, y) ==
    LET up == IF Pressed(UpKey(t)) THEN y + Speed ELSE y
    IN  IF Pressed(DownKey(t)) THEN up - Speed ELSE up

\* paddle.is_auto after the toggle key has been looked at.
Toggle(t, is_auto) == IF Pressed(ToggleKey(t)) THEN ~is_auto ELSE is_auto

\* pos.y.min(height / 2.0 - 50.).max(-height / 2.0 + 50.)
Clamp(y) ==
    LET half == (win.height * Scale) \div 2
    IN  Max(Min(y, half - 50 * Scale), -half + 50 * Scale)

\* Variant of Moved (a fault C6 must detect): the movement keys are looked
\* at whether or not the paddle is on auto-pilot.
MovedAlways(t) == Manual(t, position[t])

\* pos.y of the paddle of type t before the clamp: the movement keys are
\* looked at only if the paddle is not on auto-pilot.
Moved(t) == IF ~paddle[t].is_auto THEN Manual(t, position[t]) ELSE position[t]

move_paddle ==
    /\ pc = "move_paddle"
    /\ position' = [t \in PaddleType |-> Clamp(Moved(t))]
    /\ paddle' =
          [t \in PaddleType |-> [is_auto |-> Toggle(t, paddle[t].is_auto)]]
    /\ drive' =
          [t \in PaddleType |->
              [drive[t] EXCEPT !.manual =
                  /\ ~paddle[t].is_auto
                  /\ Pressed(UpKey(t)) \/ Pressed(DownKey(t))]]
    /\ pc' = After("move_paddle")
    /\ UNCHANGED <<frame, win, input, ball, translation, paddle_translation,
                   score, text, counter, audio, start, outcome>>

(***************************************************************************)
(* ball_collision                                                          *)
(***************************************************************************)
\* height = win.height() as f32 / 2.0 - 20.
Height == (win.height * Scale) \div 2 - 20 * Scale

\* width = win.width() as f32 / 2.0 - 20.
Width == (win.width * Scale) \div 2 - 20 * Scale

\* The ball is at the top or at the bottom edge.
Wall == translation.y >= Height \/ translation.y <= -Height

\* The branch of the if / else if over the two side edges that is taken.
AtBound(t) ==
    IF t = "Right" THEN translation.x >= Width
                   ELSE ~(translation.x >= Width) /\ translation.x <= -Width

\* Variant of Catches (a fault C2 must detect): the ends of the window catch.
CatchesInclusive(t) ==
    /\ translation.y >= position[t] - 50 * Scale
    /\ translation.y <= position[t] + 50 * Scale

\* The paddle of type t catches the ball.
Catches(t) ==
    /\ translation.y > position[t] - 50 * Scale
    /\ translation.y < position[t] + 50 * Scale

\* The side whose Score is incremented when the paddle of type t misses.
Winner(t) == IF t = "Right" THEN "Left" ELSE "Right"

\* Variant of Bounced (a fault C17 must detect): the bounce takes a third
\* of the vertical velocity away.
BouncedDamped == IF Wall THEN [ball EXCEPT !.y = -((2 * ball.y) \div 3)] ELSE ball

\* The Ball component after the top/bottom test.
Bounced == IF Wall THEN [ball EXCEPT !.y = -ball.y] ELSE ball

\* The sounds played so far, after the top/bottom test.
WallSound == IF Wall THEN Append(audio, "button") ELSE audio

\* Variant of Catch (a fault C8 must detect): no return after the catch, so
\* that the scoring code below it runs as well.
CatchFallsThrough(t) ==
    /\ ball' = [Bounced EXCEPT !.x = -ball.x]
    /\ score' = [score EXCEPT ![Winner(t)] = score[Winner(t)] + 1]
    /\ translation' = Origin
    /\ counter' = 0
    /\ audio' = Append(Append(WallSound, "button"), "ping")
    /\ outcome' = [wall |-> Wall, bound |-> t, kind |-> "catch",
                   at |-> translation]

\* Variant of Catch (a fault C9 must detect): the ball is put back to the
\* centre on a catch as it is on a miss.
CatchRecenters(t) ==
    /\ ball' = [Bounced EXCEPT !.x = -ball.x]
    /\ counter' = counter + 1
    /\ translation' = Origin
    /\ audio' = Append(WallSound, "button")
    /\ outcome' = [wall |-> Wall, bound |-> t, kind |-> "catch",
                   at |-> translation]
    /\ UNCHANGED score

\* A paddle catches: reverse x, count the return, and return.
Catch(t) ==
    /\ ball' = [Bounced EXCEPT !.x = -ball.x]
    /\ counter' = counter + 1
    /\ audio' = Append(WallSound, "button")
    /\ outcome' = [wall |-> Wall, bound |-> t, kind |-> "catch",
                   at |-> translation]
    /\ UNCHANGED <<translation, score>>

\* Variant of Miss (a fault C1 must detect): the rally counter is not reset.
MissKeepsRally(t) ==
    /\ ball' = Bounced
    /\ score' = [score EXCEPT ![Winner(t)] = score[Winner(t)] + 1]
    /\ translation' = Origin
    /\ audio' = Append(WallSound, "ping")
    /\ outcome' = [wall |-> Wall, bound |-> t, kind |-> "score",
                   at |-> translation]
    /\ UNCHANGED counter

\* Variant of Miss (a fault C12 must detect): the match on paddle_type is
\* left out, so that every Score is incremented.
MissAwardsBoth(t) ==
    /\ ball' = Bounced
    /\ score' = [s \in PaddleType |-> score[s] + 1]
    /\ translation' = Origin
    /\ counter' = 0
    /\ audio' = Append(WallSound, "ping")
    /\ outcome' = [wall |-> Wall, bound |-> t, kind |-> "score",
                   at |-> translation]

\* Variant of Miss (a fault C16 must detect): the ball is served back, x
\* being reversed on a miss as it is on a catch.
MissReverses(t) ==
    /\ ball' = [Bounced EXCEPT !.x = -ball.x]
    /\ score' = [score EXCEPT ![Winner(t)] = score[Winner(t)] + 1]
    /\ translation' = Origin
    /\ counter' = 0
    /\ audio' = Append(WallSound, "ping")
    /\ outcome' = [wall |-> Wall, bound |-> t, kind |-> "score",
                   at |-> translation]

\* No paddle of type t catches: the other side scores, the ball is reset.
Miss(t) ==
    /\ ball' = Bounced
    /\ score' = [score EXCEPT ![Winner(t)] = score[Winner(t)] + 1]
    /\ translation' = Origin
    /\ counter' = 0
    /\ audio' = Append(WallSound, "ping")
    /\ outcome' = [wall |-> Wall, bound |-> t, kind |-> "score",
                   at |-> translation]

\* The ball is at neither side edge.
NoBound ==
    /\ ball' = Bounced
    /\ audio' = WallSound
    /\ outcome' = [wall |-> Wall, bound |-> "none", kind |-> "none",
                   at |-> translation]
    /\ UNCHANGED <<translation, score, counter>>

ball_collision ==
    /\ pc = "ball_collision"
    /\ \/ AtBound("Right") /\ Catches("Right") /\ Catch("Right")
       \/ AtBound("Right") /\ ~Catches("Right") /\ Miss("Right")
       \/ AtBound("Left") /\ Catches("Left") /\ Catch("Left")
       \/ AtBound("Left") /\ ~Catches("Left") /\ Miss("Left")
       \/ ~AtBound("Right") /\ ~AtBound("Left") /\ NoBound
    /\ pc' = After("ball_collision")
    /\ UNCHANGED <<frame, win, input, paddle, position, paddle_translation,
                   text, start, drive>>

(***************************************************************************)
(* auto_move_paddle                                                        *)
(***************************************************************************)
\* -width / 2.0 for the Left paddle, width / 2.0 for the Right one.
Plane(t) ==
    IF t = "Left" THEN -((win.width * Scale) \div 2)
                  ELSE (win.width * Scale) \div 2

\* Variant of Toward (a fault C10 must detect): the whole number of steps to
\* target_y instead of its direction, which takes the paddle there at once.
TowardSnap(t, y) ==
    IF ball.x # 0
    THEN LET target_y ==
                 translation.y
                     + (ball.y * (Plane(t) - translation.x)) \div ball.x
         IN  Sign(target_y - y) * ((Abs(target_y - y) + Speed - 1) \div Speed)
    ELSE 0

\* The comparison of target_y with y: 1 for target_y > y, -1 for
\* target_y < y, 0 when neither holds, where
\*     target_y = translation.y + ball.y * ((Plane(t) - translation.x) / ball.x).
\* For ball.x = 0 the f32 quotient is an infinity of the sign of the
\* numerator, or NaN for 0 / 0; infinity * 0 is NaN, and no comparison
\* holds of NaN.
Toward(t, y) ==
    LET d == Plane(t) - translation.x
    IN  IF ball.x # 0
        THEN Sign(ball.x)
               * Sign(translation.y * ball.x + ball.y * d - y * ball.x)
        ELSE Sign(d) * Sign(ball.y)

auto_move_paddle ==
    /\ pc = "auto_move_paddle"
    /\ position' =
          [t \in PaddleType |->
              IF paddle[t].is_auto
              THEN position[t] + Toward(t, position[t]) * Speed
              ELSE position[t]]
    /\ drive' =
          [t \in PaddleType |->
              [drive[t] EXCEPT !.auto =
                  paddle[t].is_auto /\ Toward(t, position[t]) # 0]]
    /\ pc' = After("auto_move_paddle")
    /\ frame' = frame + 1
    /\ UNCHANGED <<win, input, ball, translation, paddle, paddle_translation,
                   score, text, counter, audio, start, outcome>>

(***************************************************************************)
(* The frame loop.                                                         *)
(***************************************************************************)
Next ==
    \/ keyboard_input_system
    \/ ball_move
    \/ ball_speed_up
    \/ update_score
    \/ transform_paddle
    \/ move_paddle
    \/ ball_collision
    \/ auto_move_paddle

Spec == Init /\ [][Next]_vars

(***************************************************************************)
(* The frame loop with the fairness of App::run: the engine's loop runs    *)
(* the schedule again and again and no system blocks, so a step of the     *)
(* loop that can be taken is taken.  The keyboard of SpecLive is a part of *)
(* Chords: nothing, the keys of the Right paddle, and the toggle key of    *)
(* the Left paddle (which then stays where it is).                         *)
(***************************************************************************)
LiveChords == {{}, {"P"}, {"Up"}, {"Down"}, {"Q"}}

keyboard_live == Keyboard(LiveChords)

NextLive ==
    \/ keyboard_live
    \/ ball_move
    \/ ball_speed_up
    \/ update_score
    \/ transform_paddle
    \/ move_paddle
    \/ ball_collision
    \/ auto_move_paddle

SpecLive == Init /\ [][NextLive]_vars /\ WF_vars(NextLive)

(***************************************************************************)
(* The frame loop in a window that is narrow for the speed of the ball:    *)
(* one frame's movement at the initial speed carries the ball from the     *)
(* centre past a side edge.                                                *)
(***************************************************************************)
NarrowViewports == {<<41, 120>>}

InitNarrow ==
    /\ pc = "input"
    /\ frame = 0
    /\ \E v \in NarrowViewports : win = [width |-> v[1], height |-> v[2]]
    /\ input = [pressed |-> {}, just_pressed |-> {}]
    /\ ball = spawn_ball
    /\ translation = Origin
    /\ paddle = spawn_paddle.paddle
    /\ position = spawn_paddle.position
    /\ paddle_translation = [t \in PaddleType |-> Origin]
    /\ score = spawn_paddle.score
    /\ text = spawn_paddle.text
    /\ counter = setup
    /\ audio = <<>>
    /\ start = Snapshot
    /\ outcome = NoOutcome
    /\ drive = NoDrive

SpecNarrow == InitNarrow /\ [][Next]_vars

(***************************************************************************)
(* The frame loop in a window that the user makes smaller.  Every system   *)
(* asks Windows for the size of the primary window when it runs, so a      *)
(* resize between two frames is seen by the systems of the next frame.     *)
(* Nobody touches the keyboard in SpecResize.                              *)
(***************************************************************************)
\* The sizes the window is resized to.
ResizedViewports == {<<52, 60>>}

Resize ==
    /\ pc = "input"
    /\ \E v \in ResizedViewports :
          /\ win # [width |-> v[1], height |-> v[2]]
          /\ win' = [width |-> v[1], height |-> v[2]]
    /\ UNCHANGED <<pc, frame, input, ball, translation, paddle, position,
                   paddle_translation, score, text, counter, audio, start,
                   outcome, drive>>

NextResize ==
    \/ Resize
    \/ keyboard_idle
    \/ ball_move
    \/ ball_speed_up
    \/ update_score
    \/ transform_paddle
    \/ move_paddle
    \/ ball_collision
    \/ auto_move_paddle

SpecResize == Init /\ [][NextResize]_vars

(***************************************************************************)
(* ball_speed_up on its own.  The system reads the two Score components    *)
(* and the Counter resource and writes Ball.speed_fact; SpecDifficulty     *)
(* runs it once on every pair of scores up to MaxTally, every rally count  *)
(* up to MaxRally and two values of the factor it overwrites.              *)
(***************************************************************************)
InitDifficulty ==
    /\ pc = "ball_speed_up"
    /\ frame = 0
    /\ \E v \in Viewports : win = [width |-> v[1], height |-> v[2]]
    /\ input = [pressed |-> {}, just_pressed |-> {}]
    /\ \E f \in {1 * SpeedDen, 9 * SpeedDen} :
          ball = [spawn_ball EXCEPT !.speed_fact = f]
    /\ translation = Origin
    /\ paddle = spawn_paddle.paddle
    /\ position = spawn_paddle.position
    /\ paddle_translation = [t \in PaddleType |-> Origin]
    /\ score \in [PaddleType -> 0..MaxTally]
    /\ text = spawn_paddle.text
    /\ counter \in 0..MaxRally
    /\ audio = <<>>
    /\ start = Snapshot
    /\ outcome = NoOutcome
    /\ drive = NoDrive

SpecDifficulty == InitDifficulty /\ [][ball_speed_up]_vars

(***************************************************************************)
(* auto_move_paddle on its own.  The system reads the Ball component and   *)
(* its Transform, the window and the Paddle and Position components;       *)
(* SpecAutoPilot runs it once on Ball components whose x is 3.0, -3.0 or   *)
(* 0.0, with the ball around the centre and the paddles around offset 0.   *)
(* The frame loop itself never holds a Ball with x = 0.0.                  *)
(***************************************************************************)
InitAutoPilot ==
    /\ pc = "auto_move_paddle"
    /\ frame = 0
    /\ \E v \in Viewports : win = [width |-> v[1], height |-> v[2]]
    /\ input = [pressed |-> {}, just_pressed |-> {}]
    /\ \E vx \in {-3, 0, 3}, vy \in {-3, 3} :
          ball = [spawn_ball EXCEPT !.x = vx, !.y = vy]
    /\ \E i \in -1..1, j \in -1..1 :
          translation = [x |-> i * 3 * Scale, y |-> j * 3 * Scale]
    /\ paddle \in [PaddleType -> [is_auto : BOOLEAN]]
    /\ position \in [PaddleType -> {-Speed, 0, Speed}]
    /\ paddle_translation = [t \in PaddleType |-> Origin]
    /\ score = spawn_paddle.score
    /\ text = spawn_paddle.text
    /\ counter = setup
    /\ audio = <<>>
    /\ start = Snapshot
    /\ outcome = NoOutcome
    /\ drive = NoDrive

SpecAutoPilot == InitAutoPilot /\ [][auto_move_paddle]_vars

(***************************************************************************)
(* Properties.                                                             *)
(*                                                                         *)
(* A frame is over in the states with pc = "input"; start then still holds *)
(* the entity store as it was when that frame began.  The collision step   *)
(* is the step taken from a state with pc = "ball_collision", and in the   *)
(* state it leads to (pc = "auto_move_paddle") the paddles are still where *)
(* the collision step found them.                                          *)
(***************************************************************************)
Total(s) == s["Left"] + s["Right"]

OtherSide(t) == IF t = "Left" THEN "Right" ELSE "Left"

\* The ball is at the horizontal bound of side t: x >= W, or x <= -W.
AtSide(t) ==
    IF t = "Right" THEN translation.x >= Width ELSE translation.x <= -Width

\* paddle.y - 50 < ball.y < paddle.y + 50 for the paddle of side t.
InWindow(t) ==
    /\ position[t] - 50 * Scale < translation.y
    /\ translation.y < position[t] + 50 * Scale

\* ball.y is exactly at an end of the window of the paddle of side t.
OnWindowEdge(t) ==
    \/ translation.y = position[t] - 50 * Scale
    \/ translation.y = position[t] + 50 * Scale

\* What a step does: a catch, and a score event for a miss on side t.
CatchFires == ball'.x = -ball.x /\ counter' = counter + 1

ScoreFires(t) ==
    /\ translation' = Origin
    /\ counter' = 0
    /\ score'[t] = score[t]
    /\ score'[OtherSide(t)] = score[OtherSide(t)] + 1

\* f is 1.0 + min(total, 20)/5.0 + rally/3.0, f being held in 1/SpeedDen.
IsSpeedFormula(f, total, rally) ==
    15 * f = SpeedDen * (15 + 3 * Min(total, 20) + 5 * rally)

\* C1: whenever the collision step finds the ball at x >= W with the Right
\* paddle not catching, or at x <= -W with the Left paddle not catching, it
\* leaves the ball at exactly (0,0) and the rally counter at exactly 0, the
\* score of the side that missed unchanged and the score of the opposite
\* side exactly one higher.
C1_ScoreEvent ==
    [][ pc = "ball_collision" =>
          \A t \in PaddleType :
              AtSide(t) /\ ~InWindow(t) => ScoreFires(t) ]_vars

\* C1 witness: a score event has just ended a rally of at least one return.
C1_Witness ==
    /\ pc = "auto_move_paddle"
    /\ outcome.kind = "score"
    /\ start.counter > 0
    /\ counter = 0
    /\ translation = Origin
    /\ Total(score) = Total(start.score) + 1

\* C2: at a horizontal bound the collision step catches if and only if the
\* paddle of that side has paddle.y - 50 < ball.y < paddle.y + 50, both
\* strictly; with ball.y on an end of that window, and in every other case
\* in which that paddle's window does not hold the ball, it is a score
\* event, wherever the paddle of the other side is.
C2_StrictCatch ==
    [][ pc = "ball_collision" =>
          \A t \in PaddleType :
              AtSide(t) =>
                  /\ CatchFires <=> InWindow(t)
                  /\ OnWindowEdge(t) => ~CatchFires /\ ScoreFires(t)
                  /\ ~InWindow(t) => ScoreFires(t) ]_vars

\* C2 witness: a miss with the ball exactly on the upper end of the window
\* of the paddle of that side, while the window of the other side's paddle
\* held the ball.
C2_Witness ==
    /\ pc = "auto_move_paddle"
    /\ outcome.kind = "score"
    /\ outcome.at.y = position[outcome.bound] + 50 * Scale
    /\ outcome.at.y > position[OtherSide(outcome.bound)] - 50 * Scale
    /\ outcome.at.y < position[OtherSide(outcome.bound)] + 50 * Scale

InClamp(y) ==
    /\ -((win.height * Scale) \div 2) + 50 * Scale <= y
    /\ y <= (win.height * Scale) \div 2 - 50 * Scale

\* C4 as claimed: when a frame is over each paddle's offset is within
\* [-height/2 + 50, height/2 - 50], and so is every offset transform_paddle
\* has rendered.
C4_Original ==
    /\ pc = "input" => \A t \in PaddleType : InClamp(position[t])
    /\ \A t \in PaddleType : InClamp(paddle_translation[t].y)

\* C5 as claimed: in a frame in which a paddle's toggle key is held and was
\* already held in the frame before, move_paddle leaves the paddle's is_auto
\* as it was when the frame began.
C5_Original ==
    pc \in {"ball_collision", "auto_move_paddle", "input"} =>
        \A t \in PaddleType :
            ToggleKey(t) \in input.pressed \ input.just_pressed =>
                paddle[t].is_auto = start.paddle[t].is_auto

\* What the movement keys of the paddle of type t, as they are held in the
\* frame, add to its offset.
KeyDelta(t) ==
    (IF UpKey(t) \in input.pressed THEN Speed ELSE 0)
        - (IF DownKey(t) \in input.pressed THEN Speed ELSE 0)

\* C6 as claimed: in no frame is a paddle moved both by the movement keys
\* and by the auto-pilot.
C6_Original ==
    pc = "input" =>
        \A t \in PaddleType : ~(drive[t].manual /\ drive[t].auto)

\* C6 as amended: the movement keys move a paddle only if its flag is off
\* when the frame begins (move_paddle reads it before the toggle), the
\* auto-pilot only if the flag is on when the frame is over (auto_move_paddle
\* reads it after the toggle).  With the flag not flipped in the frame the
\* offset is that of one source: the clamped offset plus at most one
\* auto-pilot step whatever keys are held, or the clamped result of the keys.
\* With the flag turned on in the frame it is that of both sources, with the
\* flag turned off that of neither.
C6_OneSourceUnlessToggled ==
    pc = "input" =>
        \A t \in PaddleType :
            LET was  == start.paddle[t].is_auto
                now  == paddle[t].is_auto
                kept == Clamp(start.position[t])
                keys == Clamp(start.position[t] + KeyDelta(t))
            IN  /\ drive[t].manual => ~was
                /\ drive[t].auto => now
                /\ was = now => ~(drive[t].manual /\ drive[t].auto)
                /\ was /\ now => Abs(position[t] - kept) \in {0, Speed}
                /\ was /\ ~now => position[t] = kept
                /\ ~was /\ ~now => position[t] = keys
                /\ ~was /\ now => Abs(position[t] - keys) \in {0, Speed}

\* C6 witness: a frame in which the toggle key turned a paddle's flag on is
\* over, and the paddle has gone up two steps in it: one by its movement
\* key, one by the auto-pilot.
C6_Witness ==
    /\ pc = "input"
    /\ \E t \in PaddleType :
          /\ drive[t].manual
          /\ drive[t].auto
          /\ position[t] = start.position[t] + 2 * Speed

\* Where ball_move puts the ball in the frame that began in start.
Advanced ==
    [x |-> start.translation.x + Step(start.ball.x, start.ball.speed_fact),
     y |-> start.translation.y + Step(start.ball.y, start.ball.speed_fact)]

Pings(snd) == Cardinality({i \in 1..Len(snd) : snd[i] = "ping"})

\* C8: the collision step of a frame has exactly one horizontal outcome.
\* With the ball put at Advanced by ball_move: it is a catch (x reversed,
\* rally counter one higher, ball not moved) exactly if the ball is at a
\* bound and in the window of that side's paddle, a score event (one point
\* and one "ping", rally counter 0, ball at the origin) exactly if it is at
\* a bound and not in that window, and otherwise nothing happens; never both
\* a catch and a score, never a point for each side, the sum of the scores
\* at most one higher.  y is reversed exactly if the ball is at the top or
\* bottom bound, whatever the horizontal outcome is.
C8_OneHorizontalOutcome ==
    pc = "auto_move_paddle" =>
        LET flipped == ball.x = -start.ball.x
            gain(t) == score[t] - start.score[t]
            gains   == gain("Left") + gain("Right")
            hit(t)  == IF t = "Right" THEN Advanced.x >= Width
                                      ELSE Advanced.x <= -Width
            held(t) == /\ position[t] - 50 * Scale < Advanced.y
                       /\ Advanced.y < position[t] + 50 * Scale
        IN  /\ \A t \in PaddleType : gain(t) \in {0, 1}
            /\ gains \in {0, 1}
            /\ Pings(audio) = gains
            /\ ~(flipped /\ gains = 1)
            /\ flipped \/ ball.x = start.ball.x
            /\ flipped <=> \E t \in PaddleType : hit(t) /\ held(t)
            /\ gains = 1 <=> \E t \in PaddleType : hit(t) /\ ~held(t)
            /\ \A t \in PaddleType : gain(OtherSide(t)) = 1 => hit(t)
            /\ flipped => counter = start.counter + 1 /\ translation = Advanced
            /\ gains = 1 => counter = 0 /\ translation = Origin
            /\ ~flipped /\ gains = 0 =>
                  counter = start.counter /\ translation = Advanced
            /\ (ball.y = -start.ball.y) <=>
                  (Advanced.y >= Height \/ Advanced.y <= -Height)
            /\ ball.y = -start.ball.y \/ ball.y = start.ball.y

\* C8 witness: a collision step has both reversed y at the top or bottom
\* bound and awarded a point.
C8_Witness ==
    /\ pc = "auto_move_paddle"
    /\ ball.y = -start.ball.y
    /\ Total(score) = Total(start.score) + 1
    /\ ball.x = start.ball.x

\* C9: a collision step that catches reverses x and adds exactly 1 to the
\* rally counter, and leaves both scores, the ball's position and its
\* speed_fact as they are (y is reversed only by a wall bounce of the same
\* step); a collision step with the ball at no horizontal bound leaves the
\* rally counter as it is, and so does every other system.
C9_CatchEffect ==
    [][ /\ pc = "ball_collision" /\ (\E t \in PaddleType : AtSide(t) /\ InWindow(t)) =>
              /\ ball'.x = -ball.x
              /\ counter' = counter + 1
              /\ score' = score
              /\ translation' = translation
              /\ ball'.speed_fact = ball.speed_fact
              /\ ball'.y = IF Wall THEN -ball.y ELSE ball.y
        /\ pc = "ball_collision" /\ (\A t \in PaddleType : ~AtSide(t)) =>
              counter' = counter
        /\ pc # "ball_collision" => counter' = counter ]_vars

\* C9 witness: the third return of a rally has just been counted, with the
\* ball left at the bound where it was caught.
C9_Witness ==
    /\ pc = "auto_move_paddle"
    /\ outcome.kind = "catch"
    /\ counter = 3
    /\ start.counter = 2
    /\ translation = outcome.at
    /\ translation # Origin

\* target_y of the auto-pilot for the paddle of type t (ball.x is not 0 and
\* ball.y * (plane - x) is a multiple of it wherever this is used).
TargetY(t) ==
    translation.y + (ball.y * (Plane(t) - translation.x)) \div ball.x

\* C10: the auto-pilot step changes no offset by more than one step of
\* height/100; for a paddle on auto-pilot it adds one step if
\* target_y > pos.y, takes one off if target_y < pos.y, and leaves the
\* offset if they are equal; it leaves the offset of any other paddle.
C10_OneStep ==
    [][ pc = "auto_move_paddle" =>
          \A t \in PaddleType :
              LET step == (win.height * Scale) \div 100
              IN  /\ Abs(position'[t] - position[t]) <= step
                  /\ ~paddle[t].is_auto => position'[t] = position[t]
                  /\ paddle[t].is_auto /\ TargetY(t) > position[t] =>
                        position'[t] = position[t] + step
                  /\ paddle[t].is_auto /\ TargetY(t) < position[t] =>
                        position'[t] = position[t] - step
                  /\ paddle[t].is_auto /\ TargetY(t) = position[t] =>
                        position'[t] = position[t] ]_vars

\* C10 witness: the auto-pilot has moved a paddle, and the paddle is still
\* more than ten steps away from its target.
C10_Witness ==
    /\ pc = "input"
    /\ \E t \in PaddleType :
          /\ drive[t].auto
          /\ Abs(TargetY(t) - position[t]) > 10 * Speed

\* C11: the step of ball_speed_up leaves the speed factor at exactly
\* 1.0 + min(total score, 20)/5.0 + rally/3.0 for the scores and the rally
\* counter it finds, whatever the factor was before; the part that comes
\* from the score is never more than 4.0, and nothing else of the ball, the
\* scores or the counter is changed by the step.
C11_DifficultyFormula ==
    [][ pc = "ball_speed_up" =>
          /\ IsSpeedFormula(ball'.speed_fact, Total(score), counter)
          /\ 3 * ball'.speed_fact - 3 * SpeedDen - counter * SpeedDen
                 <= 3 * 4 * SpeedDen
          /\ ball'.x = ball.x /\ ball'.y = ball.y
          /\ score' = score /\ counter' = counter ]_vars

\* The example of the claim: total score 25 and rally 6 give 7.0, from a
\* factor that was 9.0 before.
C11_Witness ==
    /\ pc = After("ball_speed_up")
    /\ Total(score) = 25
    /\ counter = 6
    /\ start.ball.speed_fact = 9 * SpeedDen
    /\ ball.speed_fact = 7 * SpeedDen

\* C12: a score is never negative and no step lowers or resets it; a step
\* changes the score of a side only by adding exactly 1, and only the
\* collision step does so, when the ball is at the bound of the opposite
\* side and that side's paddle does not catch.  The rally counter is the
\* only one of the three counts that a step puts back to 0.
C12_ScoreMonotone ==
    [][ \A t \in PaddleType :
          /\ score[t] >= 0
          /\ score'[t] >= score[t]
          /\ score'[t] # score[t] =>
                /\ pc = "ball_collision"
                /\ score'[t] = score[t] + 1
                /\ AtSide(OtherSide(t)) /\ ~InWindow(OtherSide(t))
                /\ counter' = 0 ]_vars

\* A frame after a score event in which the rally counter, reset by that
\* event, has been counted up again while the score is kept.
C12_Witness ==
    /\ pc = "input"
    /\ \E t \in PaddleType : start.score[t] = 1 /\ score[t] = 1
    /\ start.counter = 0
    /\ counter = 1

\* C13: in every reachable state, the initial one included, the speed
\* factor is at least 1.0, and the rally counter and both scores are at
\* least 0.
C13_FactorAtLeastOne ==
    /\ ball.speed_fact >= 1 * SpeedDen
    /\ counter >= 0
    /\ \A t \in PaddleType : score[t] >= 0

\* The factor has come down again: a score event has reset the rally
\* counter and ball_speed_up has recomputed the factor, which is lower than
\* the one the frame began with and still above 1.0.
C13_Witness ==
    /\ pc = After("ball_speed_up")
    /\ Total(score) = 1
    /\ counter = 0
    /\ ball.speed_fact < start.ball.speed_fact
    /\ ball.speed_fact = SpeedFact(1, 0)

\* pos.y after the two movement keys of the comment have been looked at.
DocManual(t, y) ==
    LET up == IF Pressed(DocUpKey(t)) THEN y + Speed ELSE y
    IN  IF Pressed(DocDownKey(t)) THEN up - Speed ELSE up

\* C14: the keys are those of the comment on move_paddle: in the step of
\* move_paddle the auto-pilot flag of a paddle flips exactly if the toggle
\* key documented for its side is down (P for Left, Q for Right), and a
\* paddle in manual mode moves by the documented movement keys of its side
\* (W up and D down for Left, Up and Down for Right) and by no other key.
C14_Original ==
    [][ pc = "move_paddle" =>
          \A t \in PaddleType :
              /\ paddle'[t].is_auto # paddle[t].is_auto
                    <=> Pressed(DocToggleKey(t))
              /\ ~paddle[t].is_auto =>
                    position'[t] = Clamp(DocManual(t, position[t])) ]_vars

Heading(v) == IF v > 0 THEN "Right" ELSE "Left"

C17_UnitVelocity ==
    /\ ball.x \in {-3, 3}
    /\ ball.y \in {-3, 3}

\* Both components have been reversed, x by a catch and y by a bounce, and
\* the auto-pilot is about to divide by x.
C17_Witness ==
    /\ pc = "auto_move_paddle"
    /\ ball.x = -3
    /\ ball.y = -3
    /\ counter > 0
    /\ \E t \in PaddleType : paddle[t].is_auto

\* C18: a top/bottom bounce sends the ball back into the field: the
\* collision step that finds the ball at y >= H leaves the vertical velocity
\* negative, and the one that finds it at y <= -H leaves it positive
\* (H = height/2 - 20 of the window of that frame); the velocity is never
\* turned outward while the ball is at or beyond the top or bottom bound.
C18_Original ==
    [][ pc = "ball_collision" =>
          /\ translation.y >= Height => ball'.y < 0
          /\ translation.y <= -Height => ball'.y > 0 ]_vars

\* C19: in the frame after a catch at a side, ball_move takes the ball
\* strictly inside that side's bound and the velocity points away from that
\* paddle, so that the collision step of that frame finds no second catch
\* at that side and does not count the return again.
C19_Original ==
    [][ pc = "ball_collision" =>
          \A t \in PaddleType :
              (IF t = "Right" THEN start.translation.x >= Width
                              ELSE start.translation.x <= -Width) =>
                  /\ ~AtSide(t)
                  /\ Heading(ball.x) = OtherSide(t)
                  /\ counter' = counter + 1 => AtSide(OtherSide(t)) ]_vars

\* The frames in which a ball that moves at least 3 units a frame gets from
\* anywhere between the side edges to one of them, and one frame more.
Horizon == (2 * Width) \div (3 * Scale) + 2

\* C20: in a window of fixed size, with frames that keep being executed,
\* the ball reaches a side edge from every reachable state: a collision
\* step that finds a catch or a miss follows, whatever keys are pressed and
\* whatever the auto-pilot flags are.  (Stated of the states that have
\* Horizon frames left before the frame bound of the model.)
C20_ReachesBound ==
    (frame + Horizon <= MaxFrames)
        ~> (pc = After("ball_collision") /\ outcome.kind # "none")

\* The ball has crossed the field: after the catch at the Right edge it is
\* the Left paddle that catches it, some frames later.
C20_Witness ==
    /\ pc = After("ball_collision")
    /\ outcome.kind = "catch"
    /\ outcome.bound = "Left"
    /\ counter = 2
    /\ frame >= 4
====
